---- MODULE Spec2Model ----
(***************************************************************************)
(* h64: a flat, open-addressed hash table of opaque handles, stored in     *)
(* groups of seven slots, probed quadratically, with a per-group           *)
(* "was full" bit in place of tombstones (source/h64.c, include/h64/h64.h).*)
(*                                                                         *)
(* A handle is a positive integer (NULL is 0) that points at an int key,   *)
(* as in resize_test of test/source/h64_test.c.  A 64-bit hash is the      *)
(* tuple of its eight bytes, least significant first.                      *)
(***************************************************************************)
EXTENDS Integers, Sequences, FiniteSets, TLC

\* ------------------------------------------------------------------ bounds
\* Keys of the workload (inserted in order, erased in order).
NumWin == 28
\* Most workload keys held at once when they are erased oldest first.
MaxWindow == 7
\* Workload keys 0 .. NumAlias - 1 have a second handle each.
NumAlias == 1
\* Most workload keys held at once when they are erased newest first.
MaxLive == 20
\* Most copies of one key that insert_new may store.
MaxCopies == 2
\* Number of distinct seeds (one per address a group array can get).
NumSeeds == 3
\* Largest argument of reserve.
MaxReserve == 20
\* Most group arrays allocated after h64_create outside the reserve workload.
MaxRehash == 1
\* Largest home group a walk of the probe sequence starts from.
MaxStart == 15

\* --------------------------------------------------------- program constants
GROUP_ENTRIES == 7
ENTRIES_MASK == 127
DEFAULT_SIZE == 4
MIN_SIZE == 4
NULL == 0

\* ------------------------------------------------------------ bit arithmetic
\* (x >> i) & 1
Bit(x, i) == (x \div (2 ^ i)) % 2

\* x | (1 << i)
SetBit(x, i) == IF Bit(x, i) = 1 THEN x ELSE x + 2 ^ i

\* x & ~(1 << i)
ClearBit(x, i) == IF Bit(x, i) = 1 THEN x - 2 ^ i ELSE x

RECURSIVE BitOr(_, _)
\* a | b
BitOr(a, b) ==
    IF a = 0 THEN b
    ELSE IF b = 0 THEN a
    ELSE 2 * BitOr(a \div 2, b \div 2) + (IF a % 2 = 1 \/ b % 2 = 1 THEN 1 ELSE 0)

RECURSIVE ctz(_)
\* __builtin_ctz: index of the lowest set bit of a non-zero value
ctz(x) == IF x % 2 = 1 THEN 0 ELSE 1 + ctz(x \div 2)

\* ------------------------------------------------------------------- utils.h
\* A roundup_to_pow2 that forgets to take one off first: the next power of
\* two strictly above n0.
roundup_to_pow2_above(n0) ==
    LET n2 == BitOr(n0, n0 \div 2)
        n3 == BitOr(n2, n2 \div 4)
        n4 == BitOr(n3, n3 \div 16)
        n5 == BitOr(n4, n4 \div 256)
        n6 == BitOr(n5, n5 \div 65536)
    IN  n6 + 1

roundup_to_pow2(n0) ==
    LET n1 == n0 - 1
        n2 == BitOr(n1, n1 \div 2)
        n3 == BitOr(n2, n2 \div 4)
        n4 == BitOr(n3, n3 \div 16)
        n5 == BitOr(n4, n4 \div 256)
        n6 == BitOr(n5, n5 \div 65536)
    IN  n6 + 1

\* ------------------------------------------------- handles, keys, callbacks
WinHandles == 1 .. NumWin
AliasHandles == (NumWin + 1) .. (NumWin + NumAlias)
Handles == WinHandles \cup AliasHandles
Keys == 0 .. (NumWin - 1)
Seeds == 0 .. (NumSeeds - 1)

\* The int a handle points at: handle p points at key p - 1, the second
\* handle of key k is NumWin + 1 + k and points at an equal int.
Mem(p) == IF p <= NumWin THEN p - 1 ELSE p - NumWin - 1

\* The user's equality callback, as the tests write it: 1 when the keys are
\* equal, 0 otherwise.
equals(lhs, rhs) == IF Mem(lhs) = Mem(rhs) THEN 1 ELSE 0

\* The user's hash callback: a function of the key and the seed.  Its low
\* byte selects the home group, its high byte is the hint.  Under one seed
\* in three, runs of seven consecutive keys share a home group; under the
\* next, all even keys collide and all odd keys collide; under the third the
\* keys spread.
hasher(entry, seed) ==
    LET k == Mem(entry)
        low == CASE seed % 3 = 0 -> (k \div GROUP_ENTRIES) % 256
                 [] seed % 3 = 1 -> 3 * (k % 2)
                 [] OTHER -> k % 256
        high == 85 * ((k + seed) % 4)
    IN  <<low, 0, 0, 0, 0, 0, 0, high>>

\* -------------------------------------------------------------- group layer
EmptyGroup ==
    [status |-> 0,
     hints |-> [i \in 0 .. (GROUP_ENTRIES - 1) |-> 0],
     entries |-> [i \in 0 .. (GROUP_ENTRIES - 1) |-> NULL]]

group_was_full(group) == group.status \div 128

group_is_full(group) == (group.status % 128) = ENTRIES_MASK

\* A group_insert that marks the group as having been full on every insert.
group_insert_marks(group, entry, hint, idx) ==
    [entries |-> [group.entries EXCEPT ![idx] = entry],
     hints |-> [group.hints EXCEPT ![idx] = hint],
     status |-> SetBit(SetBit(group.status, idx), GROUP_ENTRIES)]

\* A group_insert that leaves the was-full mark alone when the group fills.
group_insert_unmarked(group, entry, hint, idx) ==
    [entries |-> [group.entries EXCEPT ![idx] = entry],
     hints |-> [group.hints EXCEPT ![idx] = hint],
     status |-> SetBit(group.status, idx)]

group_insert(group, entry, hint, idx) ==
    LET st == SetBit(group.status, idx)
    IN  [entries |-> [group.entries EXCEPT ![idx] = entry],
         hints |-> [group.hints EXCEPT ![idx] = hint],
         status |-> IF (st % 128) = ENTRIES_MASK THEN 255 ELSE st]

\* A group_update that keeps the entry already stored.
group_update_keeps(group, entry, idx) == group

group_update(group, entry, idx) ==
    [group EXCEPT !.entries[idx] = entry]

\* A group_erase_entry that takes the was-full mark off a group it finds full.
group_erase_entry_reopens(group, idx) ==
    [entries |-> [group.entries EXCEPT ![idx] = NULL],
     hints |-> [group.hints EXCEPT ![idx] = 0],
     status |-> IF group_is_full(group) THEN ClearBit(group.status, idx) % 128
                ELSE ClearBit(group.status, idx)]

\* A group_erase_entry that also forgets that the group was ever full.
group_erase_entry_unmarks(group, idx) ==
    [entries |-> [group.entries EXCEPT ![idx] = NULL],
     hints |-> [group.hints EXCEPT ![idx] = 0],
     status |-> ClearBit(group.status, idx) % 128]

group_erase_entry(group, idx) ==
    [entries |-> [group.entries EXCEPT ![idx] = NULL],
     hints |-> [group.hints EXCEPT ![idx] = 0],
     status |-> ClearBit(group.status, idx)]

RECURSIVE MatchBits(_, _, _)
\* Bits i..6 of the byte-equality mask of the hints against hint, each
\* masked by the presence bit of its slot.
MatchBits(group, hint, i) ==
    IF i >= GROUP_ENTRIES THEN 0
    ELSE (IF group.hints[i] = hint /\ Bit(group.status, i) = 1 THEN 2 ^ i ELSE 0)
         + MatchBits(group, hint, i + 1)

group_match_inserted(group, hint) == MatchBits(group, hint, 0)

\* -------------------------------------------------------------- table layer
\* An h64_init whose groups start out marked.
h64_init_marked(size, seed) ==
    LET sz == IF size < MIN_SIZE THEN MIN_SIZE ELSE size
    IN  [groups |-> [i \in 0 .. (sz - 1) |-> [EmptyGroup EXCEPT !.status = 128]],
         size_in_groups |-> sz,
         seed |-> seed,
         count |-> 0]

\* An h64_init that takes any size as it comes.
h64_init_unclamped(size, seed) ==
    [groups |-> [i \in 0 .. (size - 1) |-> EmptyGroup],
     size_in_groups |-> size,
     seed |-> seed,
     count |-> 0]

h64_init(size, seed) ==
    LET sz == IF size < MIN_SIZE THEN MIN_SIZE ELSE size
    IN  [groups |-> [i \in 0 .. (sz - 1) |-> EmptyGroup],
         size_in_groups |-> sz,
         seed |-> seed,
         count |-> 0]

h64_hash(h, entry) == hasher(entry, h.seed)

h64_equals(lhs, rhs) == equals(lhs, rhs) # 0

\* hash >> 56
hash_hint(hash) == hash[8]

\* hash & (size - 1), size a power of two of at most 2^24
ps_init(hash, size) ==
    [size_mask |-> size - 1,
     iteration |-> 0,
     start |-> (hash[1] + 256 * hash[2] + 65536 * hash[3]) % size]

ps_next(ps) == [ps EXCEPT !.iteration = ps.iteration + 1]

\* A probe sequence that steps by squares.
ps_position_squares(ps) ==
    (ps.start + ps.iteration * ps.iteration) % (ps.size_mask + 1)

ps_position(ps) ==
    (ps.start + (ps.iteration * (ps.iteration + 1)) \div 2) % (ps.size_mask + 1)

find_result_init(group, index, found) ==
    [group |-> group, index |-> index, found |-> found, loop |-> FALSE]

\* The probe loop did not return: it revisits the same groups for ever.
LoopsForever == [group |-> -1, index |-> -1, found |-> FALSE, loop |-> TRUE]

RECURSIVE MatchScan(_, _, _)
\* The inner loop of h64_find_entry: the lowest candidate slot whose entry
\* the equality callback accepts, or -1.
MatchScan(entry, group, match_byte) ==
    IF match_byte = 0 THEN -1
    ELSE LET idx == ctz(match_byte)
         IN  IF h64_equals(entry, group.entries[idx]) THEN idx
             ELSE MatchScan(entry, group, match_byte - 2 ^ idx)

RECURSIVE FindProbe(_, _, _, _)
\* The outer loop of h64_find_entry.  The positions repeat with period
\* 2 * size_in_groups and the loop changes nothing, so a loop that has not
\* returned within one period never returns.
FindProbe(h, entry, hint, seq) ==
    IF seq.iteration >= 2 * h.size_in_groups THEN LoopsForever
    ELSE LET position == ps_position(seq)
             group == h.groups[position]
             idx == MatchScan(entry, group, group_match_inserted(group, hint))
         IN  IF idx >= 0 THEN find_result_init(position, idx, TRUE)
             ELSE IF group_was_full(group) = 0 THEN find_result_init(-1, -1, FALSE)
             ELSE FindProbe(h, entry, hint, ps_next(seq))

h64_find_entry(h, entry, hash) ==
    FindProbe(h, entry, hash_hint(hash), ps_init(hash, h.size_in_groups))

RECURSIVE EmptyProbe(_, _)
\* The loop of h64_find_empty_entry; ~status is taken in an int, so its
\* lowest set bit is the lowest clear bit of status.
EmptyProbe(h, seq) ==
    IF seq.iteration >= 2 * h.size_in_groups THEN LoopsForever
    ELSE LET position == ps_position(seq)
             group == h.groups[position]
         IN  IF ~group_is_full(group)
             THEN find_result_init(position, ctz(65535 - group.status), TRUE)
             ELSE EmptyProbe(h, ps_next(seq))

\* An h64_find_empty_entry that starts at the second group of the sequence.
h64_find_empty_entry_from_next(h, hash) ==
    EmptyProbe(h, ps_next(ps_init(hash, h.size_in_groups)))

h64_find_empty_entry(h, hash) == EmptyProbe(h, ps_init(hash, h.size_in_groups))

\* The value h64_find returns, or -1 when it never returns.
h64_find(h, entry) ==
    LET result == h64_find_entry(h, entry, h64_hash(h, entry))
    IN  IF result.loop THEN -1
        ELSE IF result.found THEN h.groups[result.group].entries[result.index]
        ELSE NULL

\* (size_t)(MAX_LOAD_FACTOR * (size_in_groups * GROUP_ENTRIES)), 0.67 = 67/100
max_count(h) == (67 * (h.size_in_groups * GROUP_ENTRIES)) \div 100

\* (size_t)(MIN_LOAD_FACTOR * (size_in_groups * GROUP_ENTRIES)), 0.67 / 4.0
min_count(h) == (67 * (h.size_in_groups * GROUP_ENTRIES)) \div 400

\* A grow-up check against the slots of the table, not its load factor.
h64_should_grow_up_when_full(h) == h.count > h.size_in_groups * GROUP_ENTRIES

\* A grow-up trigger that fires already at the threshold.
h64_should_grow_up_inclusive(h) == h.count >= max_count(h)

h64_should_grow_up(h) == h.count > max_count(h)

\* A grow-down trigger that fires already at the threshold.
h64_should_grow_down_at_min(h) == h.count <= min_count(h) /\ h.size_in_groups > MIN_SIZE

h64_should_grow_down(h) == h.count < min_count(h) /\ h.size_in_groups > MIN_SIZE

RECURSIVE EntriesFrom(_, _)
\* h64_for_each from slot number n on: groups in array order, slots in index
\* order, the non-null entries.
EntriesFrom(h, n) ==
    IF n >= h.size_in_groups * GROUP_ENTRIES THEN <<>>
    ELSE LET e == h.groups[n \div GROUP_ENTRIES].entries[n % GROUP_ENTRIES]
         IN  (IF e # NULL THEN <<e>> ELSE <<>>) \o EntriesFrom(h, n + 1)

\* An h64_for_each that starts at the second slot of the first group.
h64_for_each_from_one(h) == EntriesFrom(h, 1)

h64_for_each(h) == EntriesFrom(h, 0)

\* A call in progress: the table, the seeds of the group arrays the
\* allocator will hand out next, and whether a probe loop never returned.
World(h, al) == [h |-> h, al |-> al, hung |-> FALSE]

RECURSIVE h64_insert_new(_, _)
RECURSIVE Rehash(_, _)
\* The loop of h64_resize: insert_new of every entry of the old table.
Rehash(src, w) ==
    IF src = <<>> THEN w ELSE Rehash(Tail(src), h64_insert_new(w, Head(src)))

\* h64_resize: the table becomes the new one (h64_swap), the old group
\* array is freed.
h64_resize(w, size) ==
    Rehash(h64_for_each(w.h),
           [h |-> h64_init(size, Head(w.al)), al |-> Tail(w.al), hung |-> FALSE])

h64_grow_up(w) == h64_resize(w, w.h.size_in_groups * 2)

h64_grow_down(w) == h64_resize(w, w.h.size_in_groups \div 2)

\* An install that leaves count as it was.
InstallNew_uncounted(w, entry, hash) ==
    LET result == h64_find_empty_entry(w.h, hash)
        group == w.h.groups[result.group]
    IN  IF result.loop THEN [w EXCEPT !.hung = TRUE]
        ELSE [w EXCEPT
                !.h.groups[result.group] =
                    group_insert(group, entry, hash_hint(hash), result.index)]

\* Install entry in the slot h64_find_empty_entry returns, count += 1.
InstallNew(w, entry, hash) ==
    LET result == h64_find_empty_entry(w.h, hash)
        group == w.h.groups[result.group]
    IN  IF result.loop THEN [w EXCEPT !.hung = TRUE]
        ELSE [w EXCEPT
                !.h.groups[result.group] =
                    group_insert(group, entry, hash_hint(hash), result.index),
                !.h.count = w.h.count + 1]

\* An h64_insert_new that looks for an equal entry first and writes over it.
h64_insert_new_sought(w0, entry) ==
    IF w0.hung THEN w0
    ELSE LET w == IF h64_should_grow_up(w0.h) THEN h64_grow_up(w0) ELSE w0
             hash == h64_hash(w.h, entry)
             result == h64_find_entry(w.h, entry, hash)
         IN  IF w.hung THEN w
             ELSE IF result.loop THEN [w EXCEPT !.hung = TRUE]
             ELSE IF result.found
             THEN [w EXCEPT !.h.groups[result.group] =
                               group_update(w.h.groups[result.group], entry, result.index)]
             ELSE InstallNew(w, entry, hash)

h64_insert_new(w0, entry) ==
    IF w0.hung THEN w0
    ELSE LET w == IF h64_should_grow_up(w0.h) THEN h64_grow_up(w0) ELSE w0
         IN  IF w.hung THEN w ELSE InstallNew(w, entry, h64_hash(w.h, entry))

\* An h64_insert that does not look for an equal entry first.
h64_insert_unsought(w0, entry) == h64_insert_new(w0, entry)

h64_insert(w0, entry) ==
    LET w == IF h64_should_grow_up(w0.h) THEN h64_grow_up(w0) ELSE w0
        hash == h64_hash(w.h, entry)
        result == h64_find_entry(w.h, entry, hash)
    IN  IF w.hung THEN w
        ELSE IF result.loop THEN [w EXCEPT !.hung = TRUE]
        ELSE IF result.found
        THEN [w EXCEPT !.h.groups[result.group] =
                          group_update(w.h.groups[result.group], entry, result.index)]
        ELSE InstallNew(w, entry, hash)

\* An h64_erase that leaves count as it was.
h64_erase_uncounted(w, entry) ==
    LET hash == h64_hash(w.h, entry)
        result == h64_find_entry(w.h, entry, hash)
        group == w.h.groups[result.group]
        w1 == [w EXCEPT !.h.groups[result.group] = group_erase_entry(group, result.index)]
    IN  IF result.loop THEN [w |-> [w EXCEPT !.hung = TRUE], ret |-> NULL]
        ELSE IF result.found
        THEN [w |-> IF h64_should_grow_down(w1.h) THEN h64_grow_down(w1) ELSE w1,
              ret |-> group.entries[result.index]]
        ELSE [w |-> w, ret |-> NULL]

\* h64_erase: the world after the call and the value returned.
h64_erase(w, entry) ==
    LET hash == h64_hash(w.h, entry)
        result == h64_find_entry(w.h, entry, hash)
        group == w.h.groups[result.group]
        w1 == [w EXCEPT !.h.groups[result.group] = group_erase_entry(group, result.index),
                        !.h.count = w.h.count - 1]
    IN  IF result.loop THEN [w |-> [w EXCEPT !.hung = TRUE], ret |-> NULL]
        ELSE IF result.found
        THEN [w |-> IF h64_should_grow_down(w1.h) THEN h64_grow_down(w1) ELSE w1,
              ret |-> group.entries[result.index]]
        ELSE [w |-> w, ret |-> NULL]

\* An h64_reserve that sizes the table for entries_count slots, load factor
\* forgotten.
h64_reserve_slots(w, entries_count) ==
    h64_resize(w, roundup_to_pow2(entries_count \div GROUP_ENTRIES + 1))

\* entries_count / MAX_LOAD_FACTOR truncated to size_t; exact for
\* entries_count < 335
h64_reserve(w, entries_count) ==
    LET total_entries == (entries_count * 100) \div 67
        size_in_groups == roundup_to_pow2(total_entries \div GROUP_ENTRIES + 1)
    IN  h64_resize(w, size_in_groups)

\* -------------------------------------------------------------------- state
VARIABLES
    h,         \* the table: groups, size_in_groups, seed, count
    ret,       \* the value the last call returned (NULL for a void call)
    pc,        \* "idle" between calls, "hung" once a call never returns
    mode,      \* the caller's workload: "window", "stack", "reserve", "copies"
    lo,        \* the oldest workload key stored (the next one when none is)
    draining,  \* window workload: erasing until the table is empty
    quota,     \* reserve workload: inserts left of those reserve was asked for
    rehashes,  \* group arrays allocated since h64_create
    copies,    \* per key, the copies inserted and not erased since
    stored,    \* per key, the handles passed in that the table may hold
    erased,    \* the key the last erase was passed, -1 once it is inserted again
    newed,     \* the keys ever passed to insert_new
    seq,       \* a probe sequence being walked on its own
    visited    \* the positions seq has given so far

vars == <<h, ret, pc, mode, lo, draining, quota, rehashes, copies, stored, erased, newed,
          seq, visited>>

\* A hash whose low bytes are the home group start.
HashOf(start) == <<start % 256, start \div 256, 0, 0, 0, 0, 0, 0>>

\* Seeds of the next group arrays: each differs from the seeds of the arrays
\* alive when it is allocated (the seed is a bijection of the address).
\* A call on table t that doubles or halves it allocates one array ...
OneAlloc(t) == {<<a>> : a \in Seeds \ {t.seed}}

\* ... and h64_reserve one, and a second when the new table doubles while
\* the entries are moved into it.
TwoAllocs(t) ==
    {<<a, b>> : a \in Seeds \ {t.seed}, b \in Seeds \ {t.seed}} \ {<<a, a>> : a \in Seeds}

\* A call that allocates nothing draws nothing from the allocator.
AllocsIf(t, allocates) == IF allocates THEN OneAlloc(t) ELSE {<<>>}

\* Group arrays a finished call allocated.
Allocated(al, w) == Len(al) - Len(w.al)

WinLive == Cardinality({k \in Keys : copies[k] > 0})

\* The stack workload may take its bottom key out from under the others;
\* it puts it back before it goes on.
Gap == IF mode = "stack" /\ copies[lo] = 0 /\ WinLive > 0 THEN 1 ELSE 0

\* The workload keys stored are lo, lo + 1, ... (modulo NumWin), less the
\* bottom key when it is taken out.
NextKey == (lo + WinLive + Gap) % NumWin

NewestKey == (lo + WinLive + Gap + NumWin - 1) % NumWin

\* The caller's discipline, after the tests.  Workload keys are inserted in
\* order.  The window workload fills the table with MaxWindow keys, then
\* erases them all, oldest first, and starts again with the next keys.  The
\* stack workload holds up to MaxLive keys and erases the newest, or, of
\* more than two groups' worth of keys, the bottom one, which it then puts
\* back.  The
\* reserve workload reserves room for n keys in a fresh table and inserts
\* them, then reserves once more or erases them, newest first; it may also
\* erase a key from the table it has reserved and not yet filled.  The copies
\* workload passes keys 0 and 1 in any order, key 0 also to insert_new.
MayInsertNext(p) ==
    /\ p \in WinHandles
    /\ Mem(p) = NextKey
    /\ CASE mode = "window" -> ~draining /\ WinLive < MaxWindow
         [] mode = "stack" -> Gap = 0 /\ WinLive < MaxLive
         [] mode = "reserve" -> quota > 0
         [] OTHER -> FALSE

\* A stored key may be passed again: the oldest and the newest one, and in
\* the window workload any one that has a second handle.
MayInsertAgain(p) ==
    /\ mode \in {"window", "stack"}
    /\ copies[Mem(p)] > 0 \/ (Gap = 1 /\ p \in WinHandles)
    /\ \/ Mem(p) = lo
       \/ p \in WinHandles /\ Mem(p) = NewestKey
       \/ mode = "window" /\ p \in AliasHandles

Small(p) == mode = "copies" /\ (Mem(p) = 0 \/ p = 2)

MayErase(p) ==
    \/ Small(p)
    \/ mode \in {"window", "stack"} /\ Gap = 0 /\ Mem(p) = NextKey
    \/ mode = "window" /\ Mem(p) = lo /\ (draining \/ WinLive = MaxWindow)
    \/ mode = "stack" /\ Gap = 0 /\ Mem(p) = NewestKey
    \/ mode = "stack" /\ Mem(p) = lo /\ WinLive > 2 * GROUP_ENTRIES
    \/ mode = "reserve" /\ Mem(p) = NewestKey /\ rehashes >= 1 /\ quota = 0
    \/ mode = "reserve" /\ Mem(p) = NextKey /\ rehashes = 1 /\ h.count = 0

MayFind(p) ==
    \/ Small(p)
    \/ mode # "copies" /\ Mem(p) \in {NewestKey, NextKey}

MayReserve(n) ==
    /\ mode = "reserve"
    /\ rehashes = 0 \/ (rehashes = 1 /\ quota = 0 /\ n = 0)

\* The window and stack workloads stop short of allocating more than
\* MaxRehash group arrays.
MayAllocate(n) == mode = "reserve" \/ rehashes + n <= MaxRehash

Init ==
    /\ \E s \in Seeds : h = h64_init(DEFAULT_SIZE, s)
    /\ ret = NULL
    /\ pc = "idle"
    /\ mode \in {"window", "stack", "reserve", "copies"}
    /\ lo = 0
    /\ draining = FALSE
    /\ quota = 0
    /\ rehashes = 0
    /\ copies = [k \in Keys |-> 0]
    /\ stored = [k \in Keys |-> {}]
    /\ erased = -1
    /\ newed = {}
    /\ seq = ps_init(HashOf(0), DEFAULT_SIZE)
    /\ visited = {}

\* A call that never returns leaves the caller stuck inside it.
Hang == /\ pc' = "hung"
        /\ UNCHANGED <<h, ret, mode, lo, draining, quota, rehashes,
                       copies, stored, erased, newed, seq, visited>>

\* The call returned value and left the table w.h.
Return(w, al, value) ==
    /\ MayAllocate(Allocated(al, w))
    /\ h' = w.h
    /\ ret' = value
    /\ rehashes' = rehashes + Allocated(al, w)
    /\ UNCHANGED <<pc, mode, seq, visited>>

Insert(p) ==
    /\ pc = "idle"
    /\ MayInsertNext(p) \/ MayInsertAgain(p) \/ Small(p)
    /\ \E al \in AllocsIf(h, h64_should_grow_up(h)) :
         LET w == h64_insert(World(h, al), p)
             k == Mem(p)
         IN  IF w.hung THEN Hang
             ELSE /\ Return(w, al, NULL)
                  /\ copies' = [copies EXCEPT ![k] = IF @ = 0 THEN 1 ELSE @]
                  /\ stored' = [stored EXCEPT ![k] = IF copies[k] <= 1 THEN {p} ELSE @ \cup {p}]
                  /\ erased' = IF erased = k THEN -1 ELSE erased
                  /\ quota' = IF quota > 0 THEN quota - 1 ELSE 0
                  /\ UNCHANGED <<lo, draining, newed>>

InsertNew(p) ==
    /\ pc = "idle"
    /\ Small(p) /\ Mem(p) = 0 /\ copies[Mem(p)] < MaxCopies
    /\ \E al \in AllocsIf(h, h64_should_grow_up(h)) :
         LET w == h64_insert_new(World(h, al), p)
             k == Mem(p)
         IN  IF w.hung THEN Hang
             ELSE /\ Return(w, al, NULL)
                  /\ copies' = [copies EXCEPT ![k] = @ + 1]
                  /\ stored' = [stored EXCEPT ![k] = IF copies[k] = 0 THEN {p} ELSE @ \cup {p}]
                  /\ erased' = IF erased = k THEN -1 ELSE erased
                  /\ newed' = newed \cup {k}
                  /\ UNCHANGED <<lo, draining, quota>>

Erase(p) ==
    /\ pc = "idle"
    /\ MayErase(p)
    /\ \E al \in AllocsIf(h, h.size_in_groups > MIN_SIZE) :
         LET r == h64_erase(World(h, al), p)
             k == Mem(p)
             last == mode = "window" /\ copies[k] = 1
         IN  IF r.w.hung THEN Hang
             ELSE /\ Return(r.w, al, r.ret)
                  /\ copies' = [copies EXCEPT ![k] = IF @ > 0 THEN @ - 1 ELSE 0]
                  /\ stored' = [stored EXCEPT ![k] = IF copies[k] <= 1 THEN {} ELSE @]
                  /\ erased' = k
                  /\ lo' = IF last THEN (lo + 1) % NumWin ELSE lo
                  /\ draining' = IF last THEN WinLive > 1 ELSE draining
                  /\ quota' = 0
                  /\ UNCHANGED newed

Reserve(n) ==
    /\ pc = "idle"
    /\ MayReserve(n)
    /\ \E al \in TwoAllocs(h) :
         LET w == h64_reserve(World(h, al), n)
         IN  IF w.hung THEN Hang
             ELSE /\ Return(w, al, NULL)
                  /\ quota' = IF mode = "reserve" /\ rehashes = 0 THEN n ELSE 0
                  /\ UNCHANGED <<lo, draining, copies, stored, erased, newed>>

\* A find that leaves the handle it was passed in the slot it found.
Find_updating(p) ==
    /\ pc = "idle"
    /\ MayFind(p)
    /\ LET result == h64_find_entry(h, p, h64_hash(h, p))
       IN  IF result.loop THEN Hang
           ELSE /\ ret' = h64_find(h, p)
                /\ h' = IF result.found
                        THEN [h EXCEPT !.groups[result.group] =
                                          group_update(h.groups[result.group], p, result.index)]
                        ELSE h
                /\ UNCHANGED <<pc, mode, lo, draining, quota, rehashes,
                               copies, stored, erased, newed, seq, visited>>

Find(p) ==
    /\ pc = "idle"
    /\ MayFind(p)
    /\ LET r == h64_find(h, p)
       IN  IF r = -1 THEN Hang
           ELSE /\ ret' = r
                /\ UNCHANGED <<h, pc, mode, lo, draining, quota, rehashes,
                               copies, stored, erased, newed, seq, visited>>

\* The slots of table t that hold a handle of key k.
SlotsOf(t, k) ==
    {gi \in (0 .. (t.size_in_groups - 1)) \X (0 .. (GROUP_ENTRIES - 1)) :
         /\ t.groups[gi[1]].entries[gi[2]] # NULL
         /\ Mem(t.groups[gi[1]].entries[gi[2]]) = k}

\* The handles table t stores, each with the number of slots that hold it.
HandleBag(t) ==
    [p \in Handles |->
        Cardinality({gi \in (0 .. (t.size_in_groups - 1)) \X (0 .. (GROUP_ENTRIES - 1)) :
                         t.groups[gi[1]].entries[gi[2]] = p})]

\* The group at position k of the probe sequence of handle p in table t.
ProbeGroup(t, p, k) ==
    ps_position([ps_init(h64_hash(t, p), t.size_in_groups) EXCEPT !.iteration = k])

\* The handles the caller may pass in the current state: every call the
\* guards above let through passes one of these.
Args ==
    LET ks == {lo, NewestKey, NextKey}
    IN  {p \in Handles : Mem(p) \in ks \/ p \in AliasHandles \/ p <= 2}

Next ==
    \/ \E p \in Args : Insert(p)
    \/ \E p \in Args : InsertNew(p)
    \/ \E p \in Args : Erase(p)
    \/ \E n \in 0 .. MaxReserve : Reserve(n)
    \/ \E p \in Args : Find(p)

Spec == Init /\ [][Next]_vars

\* ------------------------------------------------ the probe sequence alone
\* Table sizes whose probe sequences are walked.
ProbeSizes == {4, 8, 16, 64, 1024}

\* A walk starts from any home group up to MaxStart of a table of any of
\* the sizes; the table itself is left as h64_create made it.
ProbeInit ==
    /\ h = h64_init(DEFAULT_SIZE, 0)
    /\ ret = NULL
    /\ pc = "idle"
    /\ mode = "probe"
    /\ lo = 0
    /\ draining = FALSE
    /\ quota = 0
    /\ rehashes = 0
    /\ copies = [k \in Keys |-> 0]
    /\ stored = [k \in Keys |-> {}]
    /\ erased = -1
    /\ newed = {}
    /\ \E size \in ProbeSizes :
         \E start \in 0 .. (IF size - 1 < MaxStart THEN size - 1 ELSE MaxStart) :
             seq = ps_init(HashOf(start), size)
    /\ visited = {}

\* One turn of the loop of h64_find_entry, for the first size_in_groups
\* iterations: take the position, move on.
Probe ==
    /\ seq.iteration <= seq.size_mask
    /\ visited' = visited \cup {ps_position(seq)}
    /\ seq' = ps_next(seq)
    /\ UNCHANGED <<h, ret, pc, mode, lo, draining, quota, rehashes,
                   copies, stored, erased, newed>>

ProbeNext == Probe

ProbeSpec == ProbeInit /\ [][ProbeNext]_vars

\* ------------------------------------------------------------------- claims
\* C1: in every table state reachable by create, insert, insert_new, erase
\* and reserve, the probe loop of h64_find_entry returns for every probe
\* element, stored or not.
C1_FindTerminates ==
    \A p \in Handles : ~h64_find_entry(h, p, h64_hash(h, p)).loop

\* C2: find of an element that was inserted and not erased since returns a
\* handle the table was passed for it (the last one passed to insert when
\* the key never went through insert_new), whatever was done to other keys.
C2_FindAfterInsert ==
    \A p \in Handles : copies[Mem(p)] > 0 => h64_find(h, p) \in stored[Mem(p)]

\* The bottom key is out, and find has returned the newest key, which lies
\* beyond its home group.
C2_Witness ==
    /\ pc = "idle"
    /\ Gap = 1
    /\ ret = NewestKey + 1
    /\ LET hash == h64_hash(h, ret)
           slot == h64_find_entry(h, ret, hash)
       IN  slot.found /\ slot.group # ps_position(ps_init(hash, h.size_in_groups))

\* C3: find of an element whose last operation was erase (the key having
\* gone through insert only, never insert_new) returns null.
C3_FindAfterErase ==
    (erased # -1 /\ erased \notin newed) =>
        \A p \in Handles : Mem(p) = erased => h64_find(h, p) = NULL

\* C4: after any sequence of insert and erase calls, count is the number of
\* keys inserted and not erased since.
C4_CountConservation ==
    newed = {} => h.count = WinLive

\* More than a group's worth of keys, one of them inserted again through its
\* second handle, after an erase.
C4_Witness ==
    /\ pc = "idle"
    /\ newed = {}
    /\ erased # -1
    /\ h.count > GROUP_ENTRIES
    /\ \E p \in AliasHandles : stored[Mem(p)] = {p}

\* C5, as amended: after any operation count is at most one more than
\* 0.67 * size_in_groups * 7 rounded down; and in a table larger than 4
\* groups that reserve did not size, count is at least
\* 0.1675 * size_in_groups * 7 rounded down.
C5_LoadFactorBounds ==
    /\ h.count <= max_count(h) + 1
    /\ (h.size_in_groups > MIN_SIZE /\ mode # "reserve") => h.count >= min_count(h)

\* C5, as stated: after any operation count <= 0.67 * size_in_groups * 7,
\* and count >= 0.1675 * size_in_groups * 7 when size_in_groups > 4.
C5_AsStated ==
    /\ 100 * h.count <= 67 * (h.size_in_groups * GROUP_ENTRIES)
    /\ h.size_in_groups > MIN_SIZE =>
           10000 * h.count >= 1675 * (h.size_in_groups * GROUP_ENTRIES)

\* The table grew once, past the upper bound of 4 groups, and erases have
\* brought it down to the lower bound of 8.
C5_Witness ==
    /\ pc = "idle"
    /\ mode = "stack"
    /\ erased # -1
    /\ h.size_in_groups = 2 * MIN_SIZE
    /\ h.count = min_count(h)

\* C6: when insert(e) has returned, a second insert(e) right after it
\* returns too and leaves count as the first call left it.
C6_IdempotentUpsert ==
    [][\A p \in Args :
          (Insert(p) /\ pc' = "idle") =>
              \A al \in AllocsIf(h', h64_should_grow_up(h')) :
                  LET again == h64_insert(World(h', al), p)
                  IN  ~again.hung /\ again.h.count = h'.count]_vars

\* A table of 8 groups holding one key more than 4 groups may: an insert of
\* a stored key doubled it, and count stayed.
C6_Witness ==
    /\ pc = "idle"
    /\ mode = "stack"
    /\ erased = -1
    /\ h.size_in_groups = 2 * MIN_SIZE
    /\ h.count = max_count(h64_init(MIN_SIZE, 0)) + 1

\* C7: insert(p2) of a key that is stored returns; afterwards find of the
\* key returns p2 and count is unchanged; the table is the one the grow-up
\* check left, with p2 written over the entry of the slot the key was found
\* in, hints and status as they were.
C7_UpsertSwap ==
    [][\A p \in Args :
          (copies[Mem(p)] > 0 /\ Insert(p)) =>
              /\ pc' = "idle"
              /\ h64_find(h', p) = p
              /\ h'.count = h.count
              /\ \E al \in AllocsIf(h, h64_should_grow_up(h)) :
                   LET g == IF h64_should_grow_up(h)
                            THEN h64_grow_up(World(h, al)).h ELSE h
                       slot == h64_find_entry(g, p, h64_hash(g, p))
                   IN  /\ slot.found
                       /\ h' = [g EXCEPT !.groups[slot.group].entries[slot.index] = p]]_vars

\* A key inserted through its first handle holds its second one: find
\* through the first returns the second.
C7_Witness ==
    /\ pc = "idle"
    /\ h.count > 1
    /\ \E p \in AliasHandles : stored[Mem(p)] = {p} /\ h64_find(h, Mem(p) + 1) = p

\* C8: erase of a stored key returns the handle the table held, clears the
\* slot and takes one off count; erase of a key not stored returns null and
\* leaves the table as it was.
C8_Erase ==
    [][\A p \in Args :
          Erase(p) =>
              LET slot == h64_find_entry(h, p, h64_hash(h, p))
              IN  /\ pc' = "idle"
                  /\ IF copies[Mem(p)] > 0
                     THEN /\ ret' = h.groups[slot.group].entries[slot.index]
                          /\ ret' \in stored[Mem(p)]
                          /\ h'.count = h.count - 1
                          /\ h'.seed = h.seed =>
                                 /\ h'.groups[slot.group].entries[slot.index] = NULL
                                 /\ Bit(h'.groups[slot.group].status, slot.index) = 0
                     ELSE ret' = NULL /\ h' = h]_vars

\* C9: after create and reserve(N), each of the next N inserts of new keys
\* returns and leaves size_in_groups and the group array as they were.
C9_ReserveThenInsert ==
    [][\A p \in Args :
          (mode = "reserve" /\ quota > 0 /\ Insert(p)) =>
              /\ pc' = "idle"
              /\ h'.size_in_groups = h.size_in_groups
              /\ h'.seed = h.seed
              /\ rehashes' = rehashes
              /\ h'.count = h.count + 1]_vars

\* reserve(MaxReserve) on the new table, then MaxReserve keys inserted.
C9_Witness ==
    /\ pc = "idle"
    /\ mode = "reserve"
    /\ rehashes = 1
    /\ quota = 0
    /\ erased = -1
    /\ h.count = MaxReserve

\* C10: in every group of every reachable table a slot's presence bit is
\* set exactly when its entry is not null (so the set bits number the
\* non-null entries), a group with all 7 presence bits set has its was-full
\* bit set, and the hint of every occupied slot is the high byte of the hash
\* of its entry under the current seed.
C10_GroupInvariant ==
    \A g \in 0 .. (h.size_in_groups - 1) :
        LET group == h.groups[g]
            slots == 0 .. (GROUP_ENTRIES - 1)
        IN  /\ \A i \in slots : Bit(group.status, i) = 1 <=> group.entries[i] # NULL
            /\ Cardinality({i \in slots : Bit(group.status % 128, i) = 1})
                   = Cardinality({i \in slots : group.entries[i] # NULL})
            /\ group_is_full(group) => group_was_full(group) = 1
            /\ \A i \in slots :
                   Bit(group.status, i) = 1 =>
                       group.hints[i] = hash_hint(h64_hash(h, group.entries[i]))

\* After a rehash one group is full and another was full and no longer is.
C10_Witness ==
    /\ pc = "idle"
    /\ rehashes > 0
    /\ \E g \in 0 .. (h.size_in_groups - 1) : group_is_full(h.groups[g])
    /\ \E g \in 0 .. (h.size_in_groups - 1) :
           group_was_full(h.groups[g]) = 1 /\ ~group_is_full(h.groups[g])

\* C11: in every reachable state the presence bits set over all groups
\* number count, also right after a grow, a shrink or a reserve.
C11_PresenceBitsAreCount ==
    Cardinality({gi \in (0 .. (h.size_in_groups - 1)) \X (0 .. (GROUP_ENTRIES - 1)) :
                     Bit(h.groups[gi[1]].status, gi[2]) = 1}) = h.count

\* The second reserve of the reserve workload has just rebuilt a table that
\* holds more than a group's worth of keys.
C11_Witness ==
    /\ pc = "idle"
    /\ mode = "reserve"
    /\ rehashes >= 2
    /\ erased = -1
    /\ h.count > GROUP_ENTRIES

\* C12: in every reachable state size_in_groups is a power of two and at
\* least 4: after create, after every grow and shrink, after reserve(N) for
\* every N, 0 included.
C12_SizeIsPowerOfTwo ==
    h.size_in_groups \in {2 ^ i : i \in 2 .. 10}

\* reserve has rebuilt the empty table, and reserve(0) has once more.
C12_Witness ==
    /\ pc = "idle"
    /\ mode = "reserve"
    /\ rehashes = 2
    /\ erased = -1
    /\ h.count = 0
    /\ h.size_in_groups = MIN_SIZE

\* C13: for size_in_groups in {4, 8, 16, 64, 1024} and any start, the first
\* size_in_groups positions of the probe sequence are pairwise distinct
\* groups of the table, so that together they are all of them.
C13_ProbeCoverage ==
    /\ visited \subseteq 0 .. seq.size_mask
    /\ Cardinality(visited) = seq.iteration

\* A walk over 1024 groups from a home group other than 0 has given every
\* group.
C13_Witness ==
    /\ seq.size_mask = 1023
    /\ seq.start > 0
    /\ seq.iteration = 1024
    /\ visited = 0 .. 1023

\* C14: as long as the group array is not replaced by a rehash, a group's
\* was-full bit, once set, stays set through every insert, upsert and erase,
\* and it gets set only by the insert that occupies the last free slot of
\* the group.
C14_WasFullSticky ==
    [][h'.seed = h.seed =>
          /\ h'.size_in_groups = h.size_in_groups
          /\ \A g \in 0 .. (h.size_in_groups - 1) :
                 /\ group_was_full(h.groups[g]) = 1 => group_was_full(h'.groups[g]) = 1
                 /\ (group_was_full(h.groups[g]) = 0 /\ group_was_full(h'.groups[g]) = 1) =>
                        /\ group_is_full(h'.groups[g])
                        /\ \E i \in 0 .. (GROUP_ENTRIES - 1) :
                               /\ h.groups[g].entries[i] = NULL
                               /\ h.groups[g].status = ClearBit(h'.groups[g].status % 128, i)]_vars

\* In the group array h64_create made, a group that was full is empty, its
\* was-full bit still set.
C14_Witness ==
    /\ pc = "idle"
    /\ rehashes = 0
    /\ \E g \in 0 .. (h.size_in_groups - 1) : h.groups[g].status = 128

\* C15: insert_new always takes a free slot for the handle and adds one to
\* count, whether or not an equal key is stored; when one of two stored
\* equal handles is erased by one erase call, find of the key still returns
\* the other.
C15_InsertNewKeepsBoth ==
    [][\A p \in Args :
          /\ (InsertNew(p) /\ pc' = "idle") =>
                 /\ h'.count = h.count + 1
                 /\ \E slot \in SlotsOf(h', Mem(p)) \ SlotsOf(h, Mem(p)) :
                        /\ SlotsOf(h', Mem(p)) = SlotsOf(h, Mem(p)) \cup {slot}
                        /\ h.groups[slot[1]].entries[slot[2]] = NULL
                        /\ h'.groups[slot[1]].entries[slot[2]] = p
          /\ (copies[Mem(p)] >= 2 /\ Erase(p)) =>
                 /\ pc' = "idle"
                 /\ h'.count = h.count - 1
                 /\ \E slot \in SlotsOf(h, Mem(p)) :
                        /\ SlotsOf(h', Mem(p)) = SlotsOf(h, Mem(p)) \ {slot}
                        /\ h.groups[slot[1]].entries[slot[2]] = ret'
                 /\ \E slot \in SlotsOf(h', Mem(p)) :
                        h'.groups[slot[1]].entries[slot[2]] = h64_find(h', p)]_vars

\* Two equal handles were stored by insert_new, one erase took one of them,
\* and find returns the other.
C15_Witness ==
    /\ pc = "idle"
    /\ mode = "copies"
    /\ 0 \in newed
    /\ erased = 0
    /\ copies[0] = 1
    /\ h.count = 1
    /\ h64_find(h, 1) # NULL

\* C16: a stored entry is treated as matching the probe exactly when the
\* equals callback returns 0 for the pair: whatever find returns for a
\* handle is a stored entry for which equals returned 0, and find returns
\* NULL only when equals returns non-0 for every stored entry.
C16_MatchesOnZero ==
    \A p \in Args :
        LET r == h64_find(h, p)
        IN  /\ r \notin {NULL, -1} => equals(p, r) = 0
            /\ r = NULL => \A i \in 1 .. Len(h64_for_each(h)) :
                               equals(p, h64_for_each(h)[i]) # 0

C18_GrowDownTrigger ==
    [][\A p \in Args :
          (pc' = "idle" /\ Erase(p)) =>
              IF /\ ret' # NULL
                 /\ h.count - 1 < (1675 * h.size_in_groups * GROUP_ENTRIES) \div 10000
                 /\ h.size_in_groups > 4
              THEN h'.size_in_groups * 2 = h.size_in_groups /\ h'.count = h.count - 1
              ELSE h'.size_in_groups = h.size_in_groups]_vars

\* C18, as stated: the same with the threshold 0.1675 * size_in_groups * 7
\* not rounded.
C18_AsStated ==
    [][\A p \in Args :
          (pc' = "idle" /\ Erase(p)) =>
              IF /\ ret' # NULL
                 /\ 10000 * (h.count - 1) < 1675 * h.size_in_groups * GROUP_ENTRIES
                 /\ h.size_in_groups > 4
              THEN h'.size_in_groups * 2 = h.size_in_groups /\ h'.count = h.count - 1
              ELSE h'.size_in_groups = h.size_in_groups]_vars

\* A table reserved at 8 groups and filled has been erased from until the
\* erase that left 8 keys halved it.
C18_Witness ==
    /\ pc = "idle"
    /\ mode = "reserve"
    /\ erased # -1
    /\ ret # NULL
    /\ h.size_in_groups = MIN_SIZE
    /\ h.count = min_count(h64_init(2 * MIN_SIZE, 0)) - 1
    /\ rehashes = 2

\* The group count the specification gives reserve(n): the least power of
\* two that is at least floor(floor(n / 0.67) / 7) + 1, and at least 4.
ReserveGroups(n) ==
    LET need == ((100 * n) \div 67) \div 7 + 1
        pow == CHOOSE s \in {2 ^ i : i \in 0 .. 10} :
                   /\ s >= need
                   /\ \A t \in {2 ^ i : i \in 0 .. 10} : t >= need => s <= t
    IN  IF pow < 4 THEN 4 ELSE pow

\* C19, as amended: after reserve(n) the table has the group count the
\* specification gives, larger or smaller than before, when the keys stored
\* fit in it (count - 1 <= 0.67 * groups * 7); when they do not, it has that
\* count doubled until they fit.
C19_ReserveSize ==
    [][\A n \in 0 .. MaxReserve :
          (mode = "reserve" /\ pc' = "idle" /\ Reserve(n)) =>
              LET Fits(s) == 100 * (h.count - 1) <= 67 * s * GROUP_ENTRIES
                  sizes == {ReserveGroups(n) * 2 ^ j : j \in 0 .. 4}
              IN  /\ h'.size_in_groups \in sizes
                  /\ Fits(h'.size_in_groups)
                  /\ \A s \in sizes : Fits(s) => h'.size_in_groups <= s]_vars

\* C19, as stated: after reserve(n) the table has the group count the
\* specification gives, whatever the count of keys stored.
C19_AsStated ==
    [][\A n \in 0 .. MaxReserve :
          (mode = "reserve" /\ pc' = "idle" /\ Reserve(n)) =>
              h'.size_in_groups = ReserveGroups(n)]_vars

\* A table reserved at 8 groups and holding one key more than the load
\* factor allows 4 groups has been taken down to 4 groups by reserve(0).
C19_Witness ==
    /\ pc = "idle"
    /\ mode = "reserve"
    /\ erased # -1
    /\ h.size_in_groups = MIN_SIZE
    /\ h.count = max_count(h) + 1

\* C20: a call that rebuilds the group array leaves exactly the handles that
\* were stored, each as many times, but for the one the call itself puts in
\* or takes out, and count with them: reserve (also to a size too small for
\* the keys stored) leaves the handles, count and the result of every find
\* as they were; an insert that grows adds its handle, or puts it in place
\* of the stored one of its key; an erase that shrinks takes out the handle
\* it returns.
C20_RehashKeepsHandles ==
    [][/\ \A n \in 0 .. MaxReserve :
             (mode = "reserve" /\ pc' = "idle" /\ Reserve(n)) =>
                 /\ HandleBag(h') = HandleBag(h)
                 /\ h'.count = h.count
                 /\ \A p \in Handles : h64_find(h', p) = h64_find(h, p)
       /\ \A p \in Args :
             /\ (h'.size_in_groups > h.size_in_groups /\ pc' = "idle" /\ Insert(p)) =>
                    LET olds == {q \in Handles : Mem(q) = Mem(p) /\ HandleBag(h)[q] > 0}
                    IN  IF olds = {}
                        THEN /\ HandleBag(h') = [HandleBag(h) EXCEPT ![p] = 1]
                             /\ h'.count = h.count + 1
                        ELSE /\ \E o \in olds :
                                 HandleBag(h') = [HandleBag(h) EXCEPT ![o] = @ - 1, ![p] = @ + 1]
                             /\ h'.count = h.count
             /\ (h'.size_in_groups < h.size_in_groups /\ pc' = "idle" /\ Erase(p)) =>
                    /\ ret' # NULL
                    /\ HandleBag(h') = [HandleBag(h) EXCEPT ![ret'] = @ - 1]
                    /\ h'.count = h.count - 1]_vars

\* reserve(0) has rebuilt a table of more keys than 4 groups may hold, and
\* the table it filled has grown to 8 groups on the way.
C20_Witness ==
    /\ pc = "idle"
    /\ mode = "reserve"
    /\ erased = -1
    /\ quota = 0
    /\ rehashes = 3
    /\ h.size_in_groups = 2 * MIN_SIZE
    /\ h.count = MaxReserve

\* C21: the empty-slot search of insert and insert_new always ends, and
\* gives the first group in the handle's probe order that is not full and
\* the lowest free slot of that group.  (1) An insert that puts a new key
\* in without rebuilding the table puts it exactly there and touches no
\* other group.  (2) A call that rebuilt the table leaves every group's
\* entries in its lowest slots, and every entry in a group all of whose
\* predecessors in the entry's probe order are full.  (3) reserve and
\* insert_new, which search for nothing else, always return; an insert that
\* does not return is one whose search for the key does not.
C21_FindEmptySlot ==
    [][/\ \A p \in Args :
             /\ (h'.seed = h.seed /\ h'.count = h.count + 1 /\ pc' = "idle"
                   /\ (Insert(p) \/ InsertNew(p))) =>
                    \E k \in 0 .. (h.size_in_groups - 1) : \E i \in 0 .. (GROUP_ENTRIES - 1) :
                        LET g == ProbeGroup(h, p, k)
                        IN  /\ \A j \in 0 .. (k - 1) :
                                   h.groups[ProbeGroup(h, p, j)].status % 128 = ENTRIES_MASK
                            /\ h.groups[g].status % 128 # ENTRIES_MASK
                            /\ Bit(h.groups[g].status, i) = 0
                            /\ \A i2 \in 0 .. (i - 1) : Bit(h.groups[g].status, i2) = 1
                            /\ h'.groups[g].entries[i] = p
                            /\ Bit(h'.groups[g].status, i) = 1
                            /\ \A g2 \in (0 .. (h.size_in_groups - 1)) \ {g} :
                                   h'.groups[g2] = h.groups[g2]
             /\ InsertNew(p) => pc' = "idle"
             /\ (pc' = "hung" /\ Insert(p)) => h64_find(h, p) = -1
       /\ \A n \in 0 .. MaxReserve : (mode = "reserve" /\ Reserve(n)) => pc' = "idle"
       /\ (h'.seed # h.seed) =>
             \A g \in 0 .. (h'.size_in_groups - 1) :
                 /\ h'.groups[g].status % 128 \in {2 ^ c - 1 : c \in 0 .. GROUP_ENTRIES}
                 /\ \A i \in 0 .. (GROUP_ENTRIES - 1) :
                        h'.groups[g].entries[i] # NULL =>
                            \E k \in 0 .. (h'.size_in_groups - 1) :
                                /\ ProbeGroup(h', h'.groups[g].entries[i], k) = g
                                /\ \A j \in 0 .. (k - 1) :
                                       h'.groups[ProbeGroup(h', h'.groups[g].entries[i], j)].status
                                           % 128 = ENTRIES_MASK]_vars

\* In a table that reserve has rebuilt an entry lies in a group that is not
\* the first of its probe sequence, and that group has a free slot.
C21_Witness ==
    /\ pc = "idle"
    /\ mode = "reserve"
    /\ rehashes >= 2
    /\ \E g \in 0 .. (h.size_in_groups - 1) : \E i \in 0 .. (GROUP_ENTRIES - 1) :
           /\ h.groups[g].entries[i] # NULL
           /\ ProbeGroup(h, h.groups[g].entries[i], 0) # g
           /\ h.groups[g].status % 128 # ENTRIES_MASK

\* C22: in the table a call that rebuilt the group array leaves, every
\* group whose was-full bit is set has all 7 presence bits set.
C22_NoStaleWasFull ==
    [][h'.seed # h.seed =>
          \A g \in 0 .. (h'.size_in_groups - 1) :
              group_was_full(h'.groups[g]) = 1 => h'.groups[g].status % 128 = ENTRIES_MASK]_vars

\* The erase that left 8 keys has halved a table in which a group had been
\* full and was no longer; the new table has a full group and a group that
\* is neither full nor empty.
C22_Witness ==
    /\ pc = "idle"
    /\ mode = "reserve"
    /\ erased # -1
    /\ ret # NULL
    /\ rehashes = 2
    /\ h.size_in_groups = MIN_SIZE
    /\ h.count = GROUP_ENTRIES + 1
    /\ \E g \in 0 .. (h.size_in_groups - 1) : h.groups[g].status = 255
    /\ \E g \in 0 .. (h.size_in_groups - 1) : h.groups[g].status \in 1 .. (ENTRIES_MASK - 1)

\* C23: in every reachable state every stored entry lies in a group of its
\* own probe sequence (current seed and size), every group before that one
\* in the sequence has its was-full bit set, and find of the entry returns
\* a stored handle of its key.
C23_ProbePath ==
    \A g \in 0 .. (h.size_in_groups - 1) : \A i \in 0 .. (GROUP_ENTRIES - 1) :
        LET e == h.groups[g].entries[i]
        IN  e # NULL =>
                /\ \E k \in 0 .. (h.size_in_groups - 1) :
                       /\ ProbeGroup(h, e, k) = g
                       /\ \A j \in 0 .. (k - 1) :
                              h.groups[ProbeGroup(h, e, j)].status >= 128
                /\ h64_find(h, e) \in Handles
                /\ Mem(h64_find(h, e)) = Mem(e)

\* No table has been rebuilt; a stored entry lies past a group of its probe
\* sequence that has been full and has a free slot again.
C23_Witness ==
    /\ pc = "idle"
    /\ rehashes = 0
    /\ \E g \in 0 .. (h.size_in_groups - 1) : \E i \in 0 .. (GROUP_ENTRIES - 1) :
           /\ h.groups[g].entries[i] # NULL
           /\ ProbeGroup(h, h.groups[g].entries[i], 0) # g
           /\ h.groups[ProbeGroup(h, h.groups[g].entries[i], 0)].status \in 128 .. 254

\* C24: in every reachable state at least one group of the table has its
\* was-full bit clear.
C24_SomeGroupUnmarked ==
    \E g \in 0 .. (h.size_in_groups - 1) : group_was_full(h.groups[g]) = 0

====
